---- MODULE Spec2Model ----
(***************************************************************************)
(* A model of the Snake game in src/src/main.rs (a Bevy application).      *)
(*                                                                         *)
(* One frame of the application is: the state transition (a queued         *)
(* NextState<GameState> becomes the State), then the systems of the Update *)
(* schedule, each an action of this module.  The scheduler may run systems *)
(* that have no ordering edge in any order, so the actions of one frame    *)
(* interleave wherever main() does not chain them.  Entities, Commands     *)
(* (applied at the next synchronisation point, not when they are issued)   *)
(* and the per-reader cursors of the two event types are modelled          *)
(* explicitly.  Positions are world coordinates (multiples of Size), as in *)
(* the Transform components of the code.                                   *)
(***************************************************************************)
EXTENDS Integers, Sequences, FiniteSets, TLC

(* ------------------------------ bounds -------------------------------- *)

\* Ticks (runs of move_head) in one behaviour: no frame begins after the last.
MaxTicks == 5

\* The random choice of spawn_apple is drawn from the free cells of a window
\* of AppleSpan cells in front of the initial head.
AppleSpan == 2

\* At startup the high score file is absent or holds a value in 1..MaxStored
\* (the game itself never saves a high score of 0).
MaxStored == 1

(* ------------------------- program constants -------------------------- *)

Size == 50

Period == 100

GridHalf == 6

GridCells == 13

\* bincode's standard configuration writes an integer below this marker as
\* one byte, and a wider one as a marker byte followed by its bytes.
SingleByteMax == 250

U16Marker == 251

U32Marker == 252

Directions == {"Up", "Down", "Left", "Right"}

GameStates == {"Running", "Paused"}

NoFile == <<-1>>

None == <<>>

NoPanic == "none"

NoProbe == [mode |-> "game"]

\* The mark of a scripted game: the player steers along a fixed route, never
\* pauses, every frame lasts one period and the systems run in one of the
\* orders the schedule allows.
Script == [mode |-> "script"]

(* ------------------------------ state --------------------------------- *)

VARIABLES
    state,              \* State<GameState>
    next_state,         \* NextState<GameState>: "Unchanged" or the pending state
    overlay,            \* Visibility of the PausedOverlay
    timer_elapsed,      \* MovementTimer: time accumulated towards the period
    direction,          \* Direction component
    last_direction,     \* LastDirection component
    parts,              \* BodyPart entities: id -> [role, pos, next, rot]
    apples,             \* Apple entities: id -> position
    next_part,          \* next free entity id for a body part
    next_apple,         \* next free entity id for an apple
    score,              \* Score component
    high_score,         \* HighScore component
    file,               \* bytes of assets/saves/high_score, or NoFile
    loaded,             \* what load_high_score returned in setup
    saves,              \* number of save_high_score calls so far
    movement_unread,    \* MovementEvents not yet read by the pipeline's on_event
    eaten_unread_group, \* AppleEatenEvents not yet read by the group's on_event
    eaten_unread_tail,  \* AppleEatenEvents not yet read by remove_tail's on_event
    grow_unread,        \* AppleEatenEvents not yet read by grow's EventReader
    commands,           \* Commands issued and not yet applied
    phase,              \* "idle" between frames, "update" inside the Update schedule
    toggle_done,        \* toggle_pause_game has run in this frame
    trigger_done,       \* trigger_movement has run (or was skipped) in this frame
    chain_pc,           \* position of the chained pipeline in this frame
    chain_on,           \* the pipeline's on_event::<MovementEvent> held in this frame
    group_pc,           \* position of the (grow, update_score) group in this frame
    ticks,              \* runs of move_head so far
    panic,              \* the message of the panic that ended the program, or NoPanic
    sent_in_frame,      \* MovementEvents sent in this frame
    ate_in_frame,       \* eat_apple sent an AppleEatenEvent in this frame
    at_start,           \* observations taken when the frame began
    resume,             \* the countdown across a pause: the time accumulated
                        \* when the game was paused, the time still needed
                        \* then less the time of the Running frames since,
                        \* whether that time has run out, and whether the
                        \* tick has fired
    probe               \* the mode of the behaviour: a game, the scripted
                        \* game, or one function applied on its own, with
                        \* its arguments and results

vars == <<state, next_state, overlay, timer_elapsed, direction, last_direction,
          parts, apples, next_part, next_apple, score, high_score, file, loaded,
          saves, movement_unread, eaten_unread_group, eaten_unread_tail,
          grow_unread, commands, phase, toggle_done, trigger_done, chain_pc,
          chain_on, group_pc, ticks, panic, sent_in_frame, ate_in_frame,
          at_start, resume, probe>>

worldVars == <<parts, apples, next_part, next_apple, commands>>

scoreVars == <<score, high_score, file, saves>>

dirVars == <<direction, last_direction>>

eventVars == <<movement_unread, eaten_unread_group, eaten_unread_tail, grow_unread>>

pauseVars == <<state, next_state, overlay>>

Scripted == probe.mode = "script"

(* ----------------------------- geometry ------------------------------- *)

Coords == (0 - GridHalf)..GridHalf

\* The cells spawn_apple enumerates.
Grid == {<<x * Size, y * Size>> : x \in Coords, y \in Coords}

\* The step of move_head for a direction.
Offset(d) ==
    CASE d = "Up" -> <<0, Size>>
      [] d = "Down" -> <<0, 0 - Size>>
      [] d = "Left" -> <<0 - Size, 0>>
      [] d = "Right" -> <<Size, 0>>

\* A wrap without the + 13.0: the remainder of a negative f32 is negative.
WrapAxisUnshifted(v) ==
    ((IF (v \div Size) + GridHalf >= 0
      THEN ((v \div Size) + GridHalf) % GridCells
      ELSE 0 - ((0 - ((v \div Size) + GridHalf)) % GridCells)) - GridHalf) * Size

\* A wrap around a grid one cell too narrow.
WrapAxisNarrow(v) ==
    ((((v \div Size) + GridHalf + GridCells) % (GridCells - 1)) - GridHalf) * Size

\* One axis of move_head's wrap: coordinate, shifted, modulo, shifted back.
WrapAxis(v) == ((((v \div Size) + GridHalf + GridCells) % GridCells) - GridHalf) * Size

Wrap(p) == <<WrapAxis(p[1]), WrapAxis(p[2])>>

NewHeadPosition(p, d) == Wrap(<<p[1] + Offset(d)[1], p[2] + Offset(d)[2]>>)

Opposite(d) ==
    CASE d = "Up" -> "Down"
      [] d = "Down" -> "Up"
      [] d = "Left" -> "Right"
      [] d = "Right" -> "Left"

is_clockwise(self, next) ==
    <<self, next>> \in {<<"Right", "Down">>, <<"Down", "Left">>,
                        <<"Left", "Up">>, <<"Up", "Right">>}

(* ---------------------------- persistence ----------------------------- *)

\* A u32 over its whole range is the pair of its 16-bit halves, high first.
Halves(n) == <<n \div 65536, n % 65536>>

Undecodable == <<0 - 1, 0 - 1>>

\* bincode::encode_to_vec(HighScore(n), config::standard()): the variable-width
\* little-endian encoding of a u32.
EncodeHalves(hi, lo) ==
    IF hi = 0 /\ lo <= SingleByteMax THEN <<lo>>
    ELSE IF hi = 0 THEN <<U16Marker, lo % 256, lo \div 256>>
    ELSE <<U32Marker, lo % 256, lo \div 256, hi % 256, hi \div 256>>

Encode(n) == EncodeHalves(Halves(n)[1], Halves(n)[2])

\* A decoder that reads the bytes after the marker most significant first.
DecodeHalvesBigEndian(b) ==
    IF Len(b) >= 1 /\ b[1] <= SingleByteMax THEN <<0, b[1]>>
    ELSE IF Len(b) >= 3 /\ b[1] = U16Marker THEN <<0, 256 * b[2] + b[3]>>
    ELSE IF Len(b) >= 5 /\ b[1] = U32Marker
         THEN <<256 * b[2] + b[3], 256 * b[4] + b[5]>>
    ELSE Undecodable

\* bincode::decode_from_slice: the value, or Undecodable where decoding fails.
DecodeHalves(b) ==
    IF Len(b) >= 1 /\ b[1] <= SingleByteMax THEN <<0, b[1]>>
    ELSE IF Len(b) >= 3 /\ b[1] = U16Marker THEN <<0, b[2] + 256 * b[3]>>
    ELSE IF Len(b) >= 5 /\ b[1] = U32Marker
         THEN <<b[4] + 256 * b[5], b[2] + 256 * b[3]>>
    ELSE Undecodable

\* The value as a number, or -1 where decoding fails.
Decode(b) ==
    IF DecodeHalves(b) = Undecodable THEN 0 - 1
    ELSE DecodeHalves(b)[1] * 65536 + DecodeHalves(b)[2]

\* load_high_score on the whole range of u32: an absent file reads as
\* HighScore(0).
load_high_score_wide(f) == IF f = NoFile THEN <<0, 0>> ELSE DecodeHalves(f)

\* save_high_score on the whole range of u32: File::create truncates,
\* write_all writes the encoding.
save_high_score_wide(w) == EncodeHalves(w[1], w[2])

\* load_high_score for the scores of a game.
load_high_score(f) ==
    IF load_high_score_wide(f) = Undecodable THEN 0 - 1
    ELSE load_high_score_wide(f)[1] * 65536 + load_high_score_wide(f)[2]

\* A save of the HighScore as it was before the increment.
SavesPreviousHighScore(h) == save_high_score_wide(Halves(h - 1))

\* save_high_score for the scores of a game.
save_high_score(h) == save_high_score_wide(Halves(h))

(* ------------------------------- timer -------------------------------- *)

\* A timer that counts every frame from zero.
TimerTickFromZero(elapsed, delta) ==
    [elapsed |-> delta % Period, times_finished |-> delta \div Period]

\* Timer::tick of a repeating timer: the time carried over and the number of
\* periods completed by this tick.
TimerTick(elapsed, delta) ==
    [elapsed |-> (elapsed + delta) % Period,
     times_finished |-> (elapsed + delta) \div Period]

\* A trigger_movement that sends one event for each period completed.
EventsSentPerPeriod(tick) == tick.times_finished

\* The MovementEvents trigger_movement sends for a tick of the timer.
EventsSent(tick) == IF tick.times_finished > 0 THEN 1 ELSE 0

\* The frame deltas the model draws from: below a period, a period, more than two.
Deltas == {Period \div 2, Period, 2 * Period + Period \div 2}

\* time.delta() of a frame.
FrameDeltas == IF Scripted THEN {Period} ELSE Deltas

\* Whether Escape was just pressed in a frame.
EscapeInputs == IF Scripted THEN {FALSE} ELSE BOOLEAN

(* ----------------------------- direction ------------------------------ *)

Keys == [up : BOOLEAN, down : BOOLEAN, left : BOOLEAN, right : BOOLEAN]

\* pressed_direction of change_direction.
PressedX(k) == (IF k.right THEN 1 ELSE 0) - (IF k.left THEN 1 ELSE 0)

PressedY(k) == (IF k.up THEN 1 ELSE 0) - (IF k.down THEN 1 ELSE 0)

\* A change_direction that tests the axis of the buffered Direction, not of
\* LastDirection.
ChangeDirectionByCurrent(k, cur, last) ==
    IF cur \in {"Left", "Right"}
    THEN CASE PressedY(k) = 1 -> "Up"
           [] PressedY(k) = 0 - 1 -> "Down"
           [] OTHER -> cur
    ELSE CASE PressedX(k) = 0 - 1 -> "Left"
           [] PressedX(k) = 1 -> "Right"
           [] OTHER -> cur

\* A change_direction in which up wins over down and right over left.
ChangeDirectionFirstKey(k, cur, last) ==
    IF last \in {"Left", "Right"}
    THEN CASE k.up -> "Up"
           [] k.down -> "Down"
           [] OTHER -> cur
    ELSE CASE k.right -> "Right"
           [] k.left -> "Left"
           [] OTHER -> cur

\* The Direction change_direction stores.
ChangeDirection(k, cur, last) ==
    IF last \in {"Left", "Right"}
    THEN CASE PressedY(k) = 1 -> "Up"
           [] PressedY(k) = 0 - 1 -> "Down"
           [] OTHER -> cur
    ELSE CASE PressedX(k) = 0 - 1 -> "Left"
           [] PressedX(k) = 1 -> "Right"
           [] OTHER -> cur

(* -------------------------- entities, commands ------------------------ *)

Part(roles, pos, next) == [roles |-> roles, pos |-> pos, next |-> next, rot |-> 0]

WithRole(ps, r) == {e \in DOMAIN ps : r \in ps[e].roles}

Positions(ps) == {ps[e].pos : e \in DOMAIN ps}

Cmd(op, id, roles, pos, next) ==
    [op |-> op, id |-> id, roles |-> roles, pos |-> pos, next |-> next]

\* The effect of one command on the world; a command on an entity that no
\* longer exists does nothing.
ApplyCommand(w, c) ==
    CASE c.op = "spawn_part" ->
            [w EXCEPT !.parts = [e \in DOMAIN w.parts \cup {c.id} |->
                IF e = c.id THEN Part(c.roles, c.pos, c.next) ELSE w.parts[e]]]
      [] c.op = "become_body" ->
            IF c.id \in DOMAIN w.parts
            THEN [w EXCEPT !.parts[c.id].roles = (@ \ {"Head"}) \cup {"Body"},
                           !.parts[c.id].next = c.next]
            ELSE w
      [] c.op = "become_tail" ->
            IF c.id \in DOMAIN w.parts
            THEN [w EXCEPT !.parts[c.id].roles = (@ \ {"Body"}) \cup {"Tail"}]
            ELSE w
      [] c.op = "despawn_part" ->
            [w EXCEPT !.parts = [e \in DOMAIN w.parts \ {c.id} |-> w.parts[e]]]
      [] c.op = "spawn_apple" ->
            [w EXCEPT !.apples = [a \in DOMAIN w.apples \cup {c.id} |->
                IF a = c.id THEN c.pos ELSE w.apples[a]]]
      [] c.op = "despawn_apple" ->
            [w EXCEPT !.apples = [a \in DOMAIN w.apples \ {c.id} |-> w.apples[a]]]

RECURSIVE ApplyCommands(_, _)
ApplyCommands(w, cs) ==
    IF cs = <<>> THEN w ELSE ApplyCommands(ApplyCommand(w, Head(cs)), Tail(cs))

\* The world after a synchronisation point.
Synced == ApplyCommands([parts |-> parts, apples |-> apples], commands)

(* ------------------------------- apples ------------------------------- *)

\* spawn_points of spawn_apple after the retain loop.
SpawnPoints(occupied) == Grid \ occupied

AppleWindow == {<<x * Size, 0>> : x \in 1..AppleSpan}

(* ------------------------------- setup -------------------------------- *)

head_position == <<0, 0>>

body_position == <<0 - Size, 0>>

tail_position == <<0 - 2 * Size, 0>>

(* ------------------------- the scripted game -------------------------- *)

\* The route of the scripted game passes every cell once: along a row to the
\* Right, across the edge, and Up one row in the column before the one in
\* which the row was entered; in the first row that is the column before the
\* Tail's.
Row(p) == ((p[2] \div Size) + GridCells) % GridCells

TurnColumn(r) ==
    (((tail_position[1] \div Size) - 1 - r + GridHalf + GridCells) % GridCells)
       - GridHalf

RouteDirection(p) ==
    IF p[1] \div Size = TurnColumn(Row(p)) THEN "Up" ELSE "Right"

RouteNext(p) == NewHeadPosition(p, RouteDirection(p))

HeadCells(ps) == {ps[e].pos : e \in WithRole(ps, "Head")}

\* The keys just pressed in a frame; in the scripted game the one key of the
\* route's direction at the head.
KeyInputs ==
    IF Scripted
    THEN {[up |-> RouteDirection(h) = "Up", down |-> FALSE, left |-> FALSE,
           right |-> RouteDirection(h) = "Right"] : h \in HeadCells(parts)}
    ELSE Keys

\* The cells the shuffle's first element is drawn from in the model; in the
\* scripted game the shuffle puts the next cell of the route first.
SpawnChoices(occupied) ==
    IF Scripted /\ {RouteNext(h) : h \in HeadCells(parts)} \ occupied # {}
    THEN {RouteNext(h) : h \in HeadCells(parts)} \ occupied
    ELSE IF SpawnPoints(occupied) \cap AppleWindow # {}
    THEN SpawnPoints(occupied) \cap AppleWindow
    ELSE IF SpawnPoints(occupied) = {} THEN {}
    ELSE {CHOOSE p \in SpawnPoints(occupied) : TRUE}

\* The ticks of one behaviour: the scripted game runs until the grid is full.
TickLimit == IF Scripted THEN GridCells * GridCells ELSE MaxTicks

\* The three segments setup spawns, in the order it spawns them.
InitialParts ==
    (1 :> Part({"Head"}, head_position, None))
    @@ (2 :> Part({"Body"}, body_position, <<1, head_position>>))
    @@ (3 :> Part({"Tail"}, tail_position, <<2, body_position>>))

\* The files load_high_score may find at startup.
InitialFiles == {NoFile} \cup {Encode(n) : n \in 1..MaxStored}

Observed == [len |-> Cardinality(DOMAIN parts),
             head |-> {parts[e].pos : e \in WithRole(parts, "Head")},
             next_apple |-> next_apple,
             timer |-> timer_elapsed]

NotTracking == [r |-> 0, need |-> 0, due |-> FALSE, fired |-> FALSE]

\* The state setup leaves behind, but for the two direction components.
InitWorld ==
    /\ state = "Running"
    /\ next_state = "Unchanged"
    /\ overlay = "Hidden"
    /\ timer_elapsed = 0
    /\ parts = InitialParts
    /\ \E p \in SpawnChoices({head_position, body_position, tail_position}) :
          apples = (1 :> p)
    /\ next_part = 4
    /\ next_apple = 2
    /\ score = 0
    /\ file \in InitialFiles
    /\ loaded = load_high_score(file)
    /\ high_score = loaded
    /\ saves = 0
    /\ movement_unread = 0
    /\ eaten_unread_group = 0
    /\ eaten_unread_tail = 0
    /\ grow_unread = <<>>
    /\ commands = <<>>
    /\ phase = "idle"
    /\ toggle_done = FALSE
    /\ trigger_done = FALSE
    /\ chain_pc = "done"
    /\ chain_on = FALSE
    /\ group_pc = "done"
    /\ ticks = 0
    /\ panic = NoPanic
    /\ sent_in_frame = 0
    /\ ate_in_frame = FALSE
    /\ at_start = [len |-> 3, head |-> {head_position}, next_apple |-> 2,
                   timer |-> 0]
    /\ resume = NotTracking

Init ==
    /\ direction = "Right"
    /\ last_direction = "Right"
    /\ probe = NoProbe
    /\ InitWorld

(* ------------------------------ frames -------------------------------- *)

\* A panic ends the program: nothing else changes and no action follows.
Crash(msg) ==
    /\ panic' = msg
    /\ UNCHANGED <<state, next_state, overlay, timer_elapsed, direction,
                   last_direction, parts, apples, next_part, next_apple, score,
                   high_score, file, loaded, saves, movement_unread,
                   eaten_unread_group, eaten_unread_tail, grow_unread, commands,
                   phase, toggle_done, trigger_done, chain_pc, chain_on,
                   group_pc, ticks, sent_in_frame, ate_in_frame, at_start, resume, probe>>

InUpdate == phase = "update" /\ panic = NoPanic

\* A schedule without run_if(in_state(GameState::Running)).
GatedInEveryState == InUpdate /\ toggle_done

\* The systems under run_if(in_state(GameState::Running)) may run.
Gated == InUpdate /\ toggle_done /\ state = "Running"

\* AppleEatenEvents stay readable in the frame they are sent and the next one.
Aged(evs) == [i \in 1..Len(SelectSeq(evs, LAMBDA e : e.age = 0)) |->
                 [SelectSeq(evs, LAMBDA e : e.age = 0)[i] EXCEPT !.age = 1]]

\* A frame begins: the queued state transition is applied before Update runs.
BeginFrame ==
    /\ phase = "idle" /\ panic = NoPanic
    /\ ticks < TickLimit
    /\ phase' = "update"
    /\ state' = IF next_state = "Unchanged" THEN state ELSE next_state
    /\ next_state' = "Unchanged"
    /\ grow_unread' = Aged(grow_unread)
    /\ toggle_done' = FALSE
    /\ trigger_done' = FALSE
    /\ chain_pc' = "change_direction"
    /\ chain_on' = FALSE
    /\ group_pc' = "cond"
    /\ sent_in_frame' = 0
    /\ ate_in_frame' = FALSE
    /\ at_start' = Observed
    /\ resume' = IF state = "Running" /\ next_state = "Paused"
                 THEN [r |-> timer_elapsed, need |-> Period - timer_elapsed,
                       due |-> FALSE, fired |-> FALSE]
                 ELSE IF resume.fired \/ resume.due THEN NotTracking ELSE resume
    /\ UNCHANGED probe
    /\ UNCHANGED <<overlay, timer_elapsed, dirVars, worldVars, scoreVars, loaded,
                   movement_unread, eaten_unread_group, eaten_unread_tail, ticks,
                   panic>>

\* toggle_pause_game is not gated by the state.  It reads the keys and the
\* State and writes NextState and the overlay, which no other system of
\* Update touches, so its place among them does not matter: it runs first.
toggle_pause_game ==
    /\ InUpdate /\ ~toggle_done
    /\ toggle_done' = TRUE
    /\ \E escape \in EscapeInputs :
          IF escape
          THEN IF state = "Paused"
               THEN next_state' = "Running" /\ overlay' = "Hidden"
               ELSE next_state' = "Paused" /\ overlay' = "Inherited"
          ELSE UNCHANGED <<next_state, overlay>>
    /\ UNCHANGED <<state, timer_elapsed, dirVars, worldVars, scoreVars, loaded,
                   eventVars, phase, trigger_done, chain_pc, chain_on, group_pc,
                   ticks, panic, sent_in_frame, ate_in_frame, at_start, resume, probe>>

\* In a Paused frame every gated system is skipped.  The executor still
\* evaluates the run conditions of the skipped systems and sets, and on_event
\* reads (and so consumes) the events its reader has not seen.
skipped_while_paused ==
    /\ InUpdate /\ toggle_done /\ state = "Paused"
    /\ chain_pc # "done" \/ group_pc # "done" \/ ~trigger_done
    /\ trigger_done' = TRUE
    /\ chain_pc' = "done"
    /\ group_pc' = "done"
    /\ movement_unread' = 0
    /\ eaten_unread_group' = 0
    /\ eaten_unread_tail' = 0
    /\ UNCHANGED <<pauseVars, timer_elapsed, dirVars, worldVars, scoreVars,
                   loaded, grow_unread, phase, toggle_done, chain_on, ticks,
                   panic, sent_in_frame, ate_in_frame, at_start, resume, probe>>

\* The schedule ends: the commands still pending are applied.
EndFrame ==
    /\ InUpdate /\ toggle_done /\ trigger_done
    /\ chain_pc = "done" /\ group_pc = "done"
    /\ phase' = "idle"
    /\ parts' = Synced.parts
    /\ apples' = Synced.apples
    /\ commands' = <<>>
    /\ UNCHANGED <<pauseVars, timer_elapsed, dirVars, next_part, next_apple,
                   scoreVars, loaded, eventVars, toggle_done, trigger_done,
                   chain_pc, chain_on, group_pc, ticks, panic, sent_in_frame,
                   ate_in_frame, at_start, resume, probe>>

(* --------------------------- gated systems ---------------------------- *)

\* The systems main() leaves unordered run in any order.  Two orders differ
\* in their result only where one system reads what the other writes, so the
\* model keeps one place for a system in each stretch of the frame in which
\* the order makes no difference:
\*   trigger_movement and the chain meet only in the MovementEvent, read when
\*     the chain's condition is evaluated: trigger_movement runs first of all
\*     or last of all;
\*   the group and the chain meet in the AppleEatenEvent sent by eat_apple:
\*     the group's condition is evaluated before the chain starts, right after
\*     eat_apple, or after the chain;
\*   grow reads the parts and its commands change the apples at the next
\*     synchronisation point: it runs before the first one, between the two,
\*     or after the second.
\* In the scripted game trigger_movement runs first and the group after the
\* chain.
TriggerPlace ==
    \/ chain_pc = "change_direction" /\ group_pc = "cond"
    \/ chain_pc = "done" /\ group_pc = "done" /\ ~Scripted

GroupCondPlace ==
    IF Scripted THEN chain_pc = "done"
    ELSE chain_pc \in {"change_direction", "remove_tail", "done"}

GrowPlace ==
    IF Scripted THEN chain_pc = "done"
    ELSE chain_pc \in {"move_head", "sync2", "done"}

\* trigger_movement: tick the timer by the frame's delta, send a MovementEvent
\* if the timer just finished.
trigger_movement ==
    /\ Gated /\ ~trigger_done /\ TriggerPlace
    /\ \E delta \in FrameDeltas :
          /\ timer_elapsed' = TimerTick(timer_elapsed, delta).elapsed
          /\ movement_unread' =
                movement_unread + EventsSent(TimerTick(timer_elapsed, delta))
          /\ sent_in_frame' =
                sent_in_frame + EventsSent(TimerTick(timer_elapsed, delta))
          /\ resume' = IF resume.need > 0
                       THEN [r |-> resume.r,
                             need |-> IF resume.need > delta
                                      THEN resume.need - delta ELSE 0,
                             due |-> resume.need <= delta,
                             fired |-> EventsSent(TimerTick(timer_elapsed, delta)) > 0]
                       ELSE resume
    /\ UNCHANGED probe
    /\ trigger_done' = TRUE
    /\ UNCHANGED <<pauseVars, dirVars, worldVars, scoreVars, loaded,
                   eaten_unread_group, eaten_unread_tail, grow_unread, phase,
                   toggle_done, chain_pc, chain_on, group_pc, ticks, panic,
                   ate_in_frame, at_start>>

change_direction ==
    /\ Gated /\ chain_pc = "change_direction"
    /\ \E k \in KeyInputs : direction' = ChangeDirection(k, direction, last_direction)
    /\ chain_pc' = "move_head"
    /\ UNCHANGED <<pauseVars, timer_elapsed, last_direction, worldVars, scoreVars,
                   loaded, eventVars, phase, toggle_done, trigger_done, chain_on,
                   group_pc, ticks, panic, sent_in_frame, ate_in_frame, at_start, resume, probe>>

\* A move_head that does not give the old Head its NextBodyPart.
MoveHeadCommandsUnlinked(head, new_head, new_head_position) ==
    <<Cmd("spawn_part", new_head, {"Head"}, new_head_position, None),
      Cmd("become_body", head, {}, <<>>, None)>>

\* The commands of move_head: spawn the new Head, turn the old one into a Body
\* that points at it.
MoveHeadCommands(head, new_head, new_head_position) ==
    <<Cmd("spawn_part", new_head, {"Head"}, new_head_position, None),
      Cmd("become_body", head, {}, <<>>, <<new_head, new_head_position>>)>>

\* A move_head that does not store the Direction it used.
CommittedKeepsLast(d, last) == last

\* The LastDirection move_head leaves behind.
CommittedDirection(d, last) == d

\* move_head, first of the chain: it runs when the chain's
\* on_event::<MovementEvent> finds an event its reader has not seen.
move_head ==
    /\ Gated /\ chain_pc = "move_head" /\ movement_unread > 0
    /\ IF Cardinality(WithRole(parts, "Head")) # 1
       THEN Crash("single")
       ELSE LET head == CHOOSE e \in WithRole(parts, "Head") : TRUE
                new_head_position == NewHeadPosition(parts[head].pos, direction)
            IN /\ commands' = commands \o
                     MoveHeadCommands(head, next_part, new_head_position)
               /\ next_part' = next_part + 1
               /\ last_direction' = CommittedDirection(direction, last_direction)
               /\ movement_unread' = 0
               /\ chain_on' = TRUE
               /\ chain_pc' = "sync1"
               /\ ticks' = ticks + 1
               /\ UNCHANGED <<pauseVars, timer_elapsed, direction, parts, apples,
                              next_apple, scoreVars, loaded, eaten_unread_group,
                              eaten_unread_tail, grow_unread, phase, toggle_done,
                              trigger_done, group_pc, panic, sent_in_frame,
                              ate_in_frame, at_start, resume, probe>>

\* No MovementEvent: the five systems of the chain are skipped.  The run
\* condition of remove_tail is evaluated all the same.
skip_chain ==
    /\ Gated /\ chain_pc = "move_head" /\ movement_unread = 0
    /\ chain_pc' = "done"
    /\ eaten_unread_tail' = 0
    /\ UNCHANGED <<pauseVars, timer_elapsed, dirVars, worldVars, scoreVars,
                   loaded, movement_unread, eaten_unread_group, grow_unread,
                   phase, toggle_done, trigger_done, chain_on, group_pc, ticks,
                   panic, sent_in_frame, ate_in_frame, at_start, resume, probe>>

\* The synchronisation points the schedule inserts after move_head and after
\* remove_tail (the systems of the chain that issue commands): every command
\* pending, of any system, is applied.
apply_deferred ==
    /\ Gated /\ chain_pc \in {"sync1", "sync2"}
    /\ parts' = Synced.parts
    /\ apples' = Synced.apples
    /\ commands' = <<>>
    /\ chain_pc' = IF chain_pc = "sync1" THEN "adjust_head_direction"
                   ELSE "adjust_tail_direction"
    /\ UNCHANGED <<pauseVars, timer_elapsed, dirVars, next_part, next_apple,
                   scoreVars, loaded, eventVars, phase, toggle_done, trigger_done,
                   chain_on, group_pc, ticks, panic, sent_in_frame, ate_in_frame,
                   at_start, resume, probe>>

\* Degrees adjust_head_direction rotates the head by.
HeadAngle(d) ==
    CASE d = "Up" -> 90
      [] d = "Down" -> 0 - 90
      [] d = "Left" -> 180
      [] d = "Right" -> 0

adjust_head_direction ==
    /\ Gated /\ chain_pc = "adjust_head_direction"
    /\ IF Cardinality(WithRole(parts, "Head")) # 1
       THEN Crash("single")
       ELSE LET head == CHOOSE e \in WithRole(parts, "Head") : TRUE
            IN /\ parts' = [parts EXCEPT ![head].rot = @ + HeadAngle(direction)]
               /\ chain_pc' = "eat_apple"
               /\ UNCHANGED <<pauseVars, timer_elapsed, dirVars, apples, next_part,
                              next_apple, commands, scoreVars, loaded, eventVars,
                              phase, toggle_done, trigger_done, chain_on, group_pc,
                              ticks, panic, sent_in_frame, ate_in_frame, at_start, resume, probe>>

\* eat_apple's test.
Eats(head_translation, apple_translation) == head_translation = apple_translation

eat_apple ==
    /\ Gated /\ chain_pc = "eat_apple"
    /\ IF Cardinality(WithRole(parts, "Head")) # 1 \/ Cardinality(DOMAIN apples) # 1
       THEN Crash("single")
       ELSE LET head == CHOOSE e \in WithRole(parts, "Head") : TRUE
                apple == CHOOSE a \in DOMAIN apples : TRUE
                eaten == Eats(parts[head].pos, apples[apple])
            IN /\ eaten_unread_group' = eaten_unread_group + (IF eaten THEN 1 ELSE 0)
               /\ eaten_unread_tail' = eaten_unread_tail + (IF eaten THEN 1 ELSE 0)
               /\ grow_unread' = IF eaten
                                 THEN Append(grow_unread, [apple |-> apple, age |-> 0])
                                 ELSE grow_unread
               /\ ate_in_frame' = eaten
               /\ chain_pc' = "remove_tail"
               /\ UNCHANGED <<pauseVars, timer_elapsed, dirVars, worldVars,
                              scoreVars, loaded, movement_unread, phase,
                              toggle_done, trigger_done, chain_on, group_pc,
                              ticks, panic, sent_in_frame, at_start, resume, probe>>

\* The commands of remove_tail: despawn the Tail, make its next part the Tail.
RemoveTailCommands(tail, next_part_entity) ==
    <<Cmd("despawn_part", tail, {}, <<>>, None),
      Cmd("become_tail", next_part_entity, {}, <<>>, None)>>

\* A remove_tail without its run condition.
RemoveTailAlways == TRUE

\* remove_tail runs when its not(on_event::<AppleEatenEvent>) holds: its reader
\* has seen every event sent so far.
RemoveTailRuns == eaten_unread_tail = 0

remove_tail ==
    /\ Gated /\ chain_pc = "remove_tail" /\ RemoveTailRuns
    /\ IF Cardinality(WithRole(parts, "Tail")) # 1
       THEN Crash("single")
       ELSE LET tail == CHOOSE e \in WithRole(parts, "Tail") : TRUE
            IN IF parts[tail].next = None
               THEN Crash("expected tail to have a next_part")
               ELSE IF parts[tail].next[1] \notin DOMAIN parts
               THEN Crash("no such entity")
               ELSE /\ commands' = commands \o
                          RemoveTailCommands(tail, parts[tail].next[1])
                    /\ chain_pc' = "sync2"
                    /\ UNCHANGED <<pauseVars, timer_elapsed, dirVars, parts, apples,
                                   next_part, next_apple, scoreVars, loaded,
                                   eventVars, phase, toggle_done, trigger_done,
                                   chain_on, group_pc, ticks, panic,
                                   sent_in_frame, ate_in_frame, at_start, resume, probe>>

\* An AppleEatenEvent is unread: remove_tail is skipped, the event consumed.
skip_remove_tail ==
    /\ Gated /\ chain_pc = "remove_tail" /\ ~RemoveTailRuns
    /\ eaten_unread_tail' = 0
    /\ chain_pc' = "sync2"
    /\ UNCHANGED <<pauseVars, timer_elapsed, dirVars, worldVars, scoreVars,
                   loaded, movement_unread, eaten_unread_group, grow_unread,
                   phase, toggle_done, trigger_done, chain_on, group_pc, ticks,
                   panic, sent_in_frame, ate_in_frame, at_start, resume, probe>>

\* Degrees adjust_tail_direction leaves the tail rotated by.
TailAngle(position, next_position) ==
    IF next_position[1] = position[1]
    THEN IF next_position[2] > position[2] THEN 90 ELSE 0 - 90
    ELSE IF next_position[1] > position[1] THEN 0 ELSE 180

adjust_tail_direction ==
    /\ Gated /\ chain_pc = "adjust_tail_direction"
    /\ IF Cardinality(WithRole(parts, "Tail")) # 1
       THEN Crash("single")
       ELSE LET tail == CHOOSE e \in WithRole(parts, "Tail") : TRUE
            IN /\ parts' = IF parts[tail].next = None THEN parts
                           ELSE [parts EXCEPT ![tail].rot =
                                    TailAngle(parts[tail].pos, parts[tail].next[2])]
               /\ chain_pc' = "done"
               /\ UNCHANGED <<pauseVars, timer_elapsed, dirVars, apples, next_part,
                              next_apple, commands, scoreVars, loaded, eventVars,
                              phase, toggle_done, trigger_done, chain_on, group_pc,
                              ticks, panic, sent_in_frame, ate_in_frame, at_start, resume, probe>>

(* ------------------ the group run on AppleEatenEvent ------------------ *)

\* An update_score that also raises a HighScore equal to the Score.
RaisedHighScoreOnTie(high, current_score) ==
    IF high <= current_score THEN high + 1 ELSE high

\* update_score's new HighScore for the incremented Score.
RaisedHighScore(high, current_score) ==
    IF high < current_score THEN high + 1 ELSE high

\* An update_score that saves on every eat.
SavesOnEveryEat(high, current_score) == TRUE

\* update_score calls save_high_score inside its if high_score.0 < current_score.
SavesHighScore(high, current_score) == high < current_score

\* The group (grow, update_score, play_crunch_sound) shares one on_event
\* condition, evaluated once a frame.  update_score touches only the scores
\* and the file, which no other system reads, so it is placed where the
\* condition is evaluated; grow follows at any later point of the frame.
update_score ==
    /\ Gated /\ group_pc = "cond" /\ GroupCondPlace /\ eaten_unread_group > 0
    /\ eaten_unread_group' = 0
    /\ score' = score + 1
    /\ high_score' = RaisedHighScore(high_score, score + 1)
    /\ IF SavesHighScore(high_score, score + 1)
       THEN /\ file' = save_high_score(RaisedHighScore(high_score, score + 1))
            /\ saves' = saves + 1
       ELSE UNCHANGED <<file, saves>>
    /\ group_pc' = "grow"
    /\ UNCHANGED <<pauseVars, timer_elapsed, dirVars, worldVars, loaded,
                   movement_unread, eaten_unread_tail, grow_unread, phase,
                   toggle_done, trigger_done, chain_pc, chain_on, ticks, panic,
                   sent_in_frame, ate_in_frame, at_start, resume, probe>>

\* No AppleEatenEvent unread: the group is skipped.
skip_group ==
    /\ Gated /\ group_pc = "cond" /\ GroupCondPlace /\ eaten_unread_group = 0
    /\ group_pc' = "done"
    /\ UNCHANGED <<pauseVars, timer_elapsed, dirVars, worldVars, scoreVars,
                   loaded, eventVars, phase, toggle_done, trigger_done, chain_pc,
                   chain_on, ticks, panic, sent_in_frame, ate_in_frame, at_start, resume, probe>>

\* The despawn commands of grow, one for each event its reader has not seen.
DespawnCommands(evs) ==
    [i \in 1..Len(evs) |-> Cmd("despawn_apple", evs[i].apple, {}, <<>>, None)]

\* The positions grow passes to spawn_apple: those of the BodyParts it sees.
OccupiedFor(ps) == Positions(ps)

grow ==
    /\ Gated /\ group_pc = "grow" /\ GrowPlace
    /\ IF \E i \in 1..Len(grow_unread) : grow_unread[i].apple \notin DOMAIN apples
       THEN Crash("no such entity")
       ELSE IF SpawnPoints(OccupiedFor(parts)) = {}
       THEN Crash("expected spawn point")
       ELSE /\ \E p \in SpawnChoices(OccupiedFor(parts)) :
                  commands' = commands \o DespawnCommands(grow_unread) \o
                     <<Cmd("spawn_apple", next_apple, {}, p, None)>>
            /\ next_apple' = next_apple + 1
            /\ grow_unread' = <<>>
            /\ group_pc' = "done"
            /\ UNCHANGED <<pauseVars, timer_elapsed, dirVars, parts, apples,
                           next_part, scoreVars, loaded, movement_unread,
                           eaten_unread_group, eaten_unread_tail, phase,
                           toggle_done, trigger_done, chain_pc, chain_on, ticks,
                           panic, sent_in_frame, ate_in_frame, at_start, resume, probe>>

(* --------------------------- specification ---------------------------- *)

Next ==
    \/ BeginFrame
    \/ toggle_pause_game
    \/ skipped_while_paused
    \/ trigger_movement
    \/ change_direction
    \/ move_head
    \/ skip_chain
    \/ apply_deferred
    \/ adjust_head_direction
    \/ eat_apple
    \/ remove_tail
    \/ skip_remove_tail
    \/ adjust_tail_direction
    \/ update_score
    \/ skip_group
    \/ grow
    \/ EndFrame

Spec == Init /\ [][Next]_vars

(* ------------------------------ claims -------------------------------- *)

EndOfFrame == phase = "idle" /\ panic = NoPanic

Segments == DOMAIN parts

Length == Cardinality(Segments)

\* C1: at the end of every tick no two segments of the chain occupy the same
\* grid cell.
C1_NoSharedCell ==
    EndOfFrame => \A a \in Segments : \A b \in Segments :
                     a # b => parts[a].pos # parts[b].pos

\* C2: the chain always has at least 3 segments, and a frame changes their
\* number by exactly +1 when its tick's new head landed on the apple and by
\* 0 otherwise.
C2_LengthPerTick ==
    /\ Length >= 3
    /\ EndOfFrame => Length = at_start.len + (IF ate_in_frame THEN 1 ELSE 0)
    /\ ate_in_frame => chain_on

\* An eat tick and a non-eat tick have both happened: the chain has grown
\* once and the last frame ticked without eating.
C2_Witness ==
    /\ EndOfFrame /\ chain_on /\ ~ate_in_frame
    /\ Length = 4 /\ at_start.len = 4 /\ ticks >= 3

\* C3: the buffered Direction is never the opposite of LastDirection, and the
\* direction a tick applies is never the reverse of the one applied before.
C3_NeverReversed ==
    /\ [](direction # Opposite(last_direction))
    /\ [][last_direction' # Opposite(last_direction)]_vars

\* After a turn was applied, two more direction changes were buffered between
\* ticks: Up was committed, Left was pressed, then Right.
C3_Witness ==
    /\ last_direction = "Up" /\ direction = "Right"
    /\ chain_pc = "move_head" /\ movement_unread = 0 /\ ticks >= 2

(* ---------------- change_direction on every input --------------------- *)

\* The inputs of change_direction: every pair of Direction and LastDirection
\* and every combination of the four just-pressed keys.
InitChangeDirection ==
    /\ last_direction \in Directions
    /\ direction \in Directions
    /\ \E k \in Keys :
          probe = [mode |-> "change_direction", keys |-> k, current |-> direction,
                   applied |-> FALSE]
    /\ InitWorld

\* One run of change_direction on the keys drawn.
resolve_direction ==
    /\ ~probe.applied
    /\ direction' = ChangeDirection(probe.keys, direction, last_direction)
    /\ probe' = [probe EXCEPT !.applied = TRUE]
    /\ UNCHANGED <<pauseVars, timer_elapsed, last_direction, worldVars, scoreVars,
                   loaded, eventVars, phase, toggle_done, trigger_done, chain_pc,
                   chain_on, group_pc, ticks, panic, sent_in_frame, ate_in_frame,
                   at_start, resume>>

SpecChangeDirection == InitChangeDirection /\ [][resolve_direction]_vars

C4_Expected ==
    IF last_direction \in {"Left", "Right"}
    THEN IF probe.keys.up /\ ~probe.keys.down THEN "Up"
         ELSE IF probe.keys.down /\ ~probe.keys.up THEN "Down"
         ELSE probe.current
    ELSE IF probe.keys.left /\ ~probe.keys.right THEN "Left"
         ELSE IF probe.keys.right /\ ~probe.keys.left THEN "Right"
         ELSE probe.current

\* C4: with LastDirection Left or Right, change_direction yields Up when only
\* up is pressed, Down when only down is pressed and the previous Direction
\* otherwise, whatever the horizontal keys; with LastDirection Up or Down it
\* yields Left or Right for an unpaired left or right key and the previous
\* Direction otherwise, whatever the vertical keys.
C4_ImpulseTable == probe.applied => direction = C4_Expected

\* Up and down pressed together with left, after a horizontal step: the
\* buffered Down is kept.
C4_Witness ==
    /\ probe.applied
    /\ probe.keys.up /\ probe.keys.down /\ probe.keys.left /\ ~probe.keys.right
    /\ last_direction = "Right" /\ probe.current = "Down" /\ direction = "Down"

(* ------------------------------ the chain ----------------------------- *)

RECURSIVE Walk(_, _)
\* The segments met by following next from e, at most fuel of them.
Walk(e, fuel) ==
    IF fuel = 0 \/ e \notin Segments THEN <<>>
    ELSE IF parts[e].next = None THEN <<e>>
    ELSE <<e>> \o Walk(parts[e].next[1], fuel - 1)

\* C5: at the end of every frame there is exactly one Head, which has no
\* next, exactly one Tail, and every other segment is a Body; the walk along
\* next from the Tail ends at the Head after length-1 hops and meets no
\* segment twice; remove_tail never fails for a Tail without a next.
C5_ChainShape ==
    /\ panic # "expected tail to have a next_part"
    /\ EndOfFrame =>
          /\ Cardinality(WithRole(parts, "Head")) = 1
          /\ Cardinality(WithRole(parts, "Tail")) = 1
          /\ \A e \in Segments : parts[e].roles \in {{"Head"}, {"Body"}, {"Tail"}}
          /\ \A h \in WithRole(parts, "Head") : parts[h].next = None
          /\ \A t \in WithRole(parts, "Tail") :
                /\ Len(Walk(t, Length + 1)) = Length
                /\ Walk(t, Length + 1)[Length] \in WithRole(parts, "Head")
                /\ Cardinality({Walk(t, Length + 1)[i] : i \in 1..Length}) = Length

\* The chain has grown twice and shrunk at its tail in between.
C5_Witness == EndOfFrame /\ Length = 5 /\ ticks = MaxTicks /\ 3 \notin Segments

(* ------------------------------ the apple ----------------------------- *)

\* C6: at the end of a frame that follows setup, that ticked without eating,
\* or in which an apple was respawned, no apple lies on a cell of the chain.
C6_AppleOffSnake ==
    (/\ EndOfFrame /\ ~ate_in_frame
     /\ ticks = 0 \/ chain_on \/ next_apple # at_start.next_apple)
    => \A a \in DOMAIN apples : apples[a] \notin Positions(parts)

(* ------------------------------- pause -------------------------------- *)

\* C7: no step of a frame whose GameState is Paused changes the timer's
\* accumulated time, Direction, LastDirection, the chain, the apple, Score or
\* HighScore; the GameState leaves Paused only between frames, and only
\* after the pause toggle queued Running.
C7_PausedFrozen ==
    [][state = "Paused" =>
          /\ UNCHANGED <<timer_elapsed, direction, last_direction, parts, apples,
                         score, high_score>>
          /\ state' # state => phase = "idle" /\ next_state = "Running"]_vars

\* A Paused frame has passed, with half a period on the timer, an apple eaten
\* before and a turn buffered, and the toggle was pressed again in it.
C7_Witness ==
    /\ state = "Paused" /\ EndOfFrame /\ next_state = "Running"
    /\ timer_elapsed = Period \div 2 /\ score = 1
    /\ direction # last_direction

\* C8: while Paused no MovementEvent is sent and the timer stays at the r it
\* had when the game was paused; after the resume the next MovementEvent is
\* sent in the frame in which the time of the Running frames since reaches
\* period - r, and in no frame before.
C8_CountdownAcrossPause ==
    /\ state = "Paused" =>
          /\ sent_in_frame = 0
          /\ timer_elapsed = resume.r
          /\ resume.need = Period - resume.r
    /\ resume.need > 0 => timer_elapsed = Period - resume.need
    /\ resume.fired <=> resume.due

\* Paused with half a period accumulated, resumed, and the tick fired in the
\* frame that brought the other half.
C8_Witness ==
    /\ EndOfFrame /\ state = "Running"
    /\ resume.fired /\ resume.r = Period \div 2
    /\ at_start.timer = Period \div 2 /\ timer_elapsed = 0

(* -------------------------------- ticks ------------------------------- *)

Distance(a, b) == IF a >= b THEN a - b ELSE b - a

\* The cells p and q are the same or neighbours on the torus.
Near(p, q) ==
    \/ p = q
    \/ /\ p[2] = q[2]
       /\ Distance(p[1], q[1]) \in {Size, (GridCells - 1) * Size}
    \/ /\ p[1] = q[1]
       /\ Distance(p[2], q[2]) \in {Size, (GridCells - 1) * Size}

\* C9: trigger_movement sends at most one MovementEvent a frame and the head
\* is at most one cell from where it was when the frame began, for every
\* delta; the event is sent exactly when the accumulated time reaches the
\* period, and the time carried over is the accumulated time modulo the
\* period.
C9_OneTickPerFrame ==
    /\ [](sent_in_frame <= 1)
    /\ [](EndOfFrame =>
            \A h \in WithRole(parts, "Head") : \A o \in at_start.head :
               Near(parts[h].pos, o))
    /\ [][(state = "Running" /\ phase = "update" /\ ~trigger_done /\ trigger_done')
          => \E delta \in Deltas :
                /\ sent_in_frame' =
                      IF timer_elapsed + delta >= Period THEN 1 ELSE 0
                /\ timer_elapsed' = (timer_elapsed + delta) % Period]_vars

\* A frame of two and a half periods: one event, one step of the head, half a
\* period carried over.
C9_Witness ==
    /\ EndOfFrame /\ chain_on
    /\ at_start.timer = 0 /\ timer_elapsed = Period \div 2 /\ sent_in_frame = 1
    /\ \A h \in WithRole(parts, "Head") : parts[h].pos \notin at_start.head

(* -------------------------------- score ------------------------------- *)

C11_SaveOnRecordOnly ==
    [][/\ saves' # saves =>
             saves' = saves + 1 /\ score' = score + 1 /\ high_score < score'
       /\ (score' # score /\ high_score < score') => saves' = saves + 1
       /\ high_score' >= high_score
       /\ (high_score' # high_score \/ file' # file) => saves' # saves
       /\ state = "Paused" => saves' = saves]_vars

\* Two eats over a stored HighScore of 1: the first was not saved, the second
\* was, and the file holds it.
C11_Witness ==
    /\ EndOfFrame /\ loaded = 1 /\ score = 2
    /\ saves = 1 /\ file = save_high_score(2)

(* ------------------- move_head on the whole grid ---------------------- *)

\* The inputs of a run of steps in one direction: every cell of the grid as
\* the head's position and every Direction.
InitMoveHead ==
    /\ direction \in Directions
    /\ last_direction = direction
    /\ \E p \in Grid :
          probe = [mode |-> "move_head", start |-> p, position |-> p,
                   unwrapped |-> p, steps |-> 0]
    /\ InitWorld

\* One computation of move_head's new_head_position, up to once round the grid.
step_head ==
    /\ probe.steps < GridCells
    /\ probe' = [probe EXCEPT
                    !.unwrapped = <<probe.position[1] + Offset(direction)[1],
                                    probe.position[2] + Offset(direction)[2]>>,
                    !.position = NewHeadPosition(probe.position, direction),
                    !.steps = @ + 1]
    /\ UNCHANGED <<pauseVars, timer_elapsed, dirVars, worldVars, scoreVars,
                   loaded, eventVars, phase, toggle_done, trigger_done, chain_pc,
                   chain_on, group_pc, ticks, panic, sent_in_frame, ate_in_frame,
                   at_start, resume>>

SpecMoveHead == InitMoveHead /\ [][step_head]_vars

\* The cell coordinate reached from c after n steps of s along an axis of
\* the 13-cell torus.
Along(c, s, n) == ((c + GridHalf + s * n) % GridCells) - GridHalf

StepX(d) == CASE d = "Right" -> 1 [] d = "Left" -> 0 - 1 [] OTHER -> 0

StepY(d) == CASE d = "Up" -> 1 [] d = "Down" -> 0 - 1 [] OTHER -> 0

\* C12: every step moves the head one cell along the axis of the direction
\* on the 13-cell torus and leaves the other coordinate alone; the head's
\* coordinates stay in [-6,6], a step past +6 lands on -6 and a step past -6
\* on +6; from (0,0) going Right the head is at x = 50 after one step and at
\* x = -300 after six more; 13 steps in one direction bring it back.
C12_TorusStep ==
    /\ probe.position \in Grid
    /\ probe.position =
          <<Along(probe.start[1] \div Size, StepX(direction), probe.steps) * Size,
            Along(probe.start[2] \div Size, StepY(direction), probe.steps) * Size>>
    /\ \A i \in 1..2 :
          probe.position[i] =
             IF probe.unwrapped[i] > GridHalf * Size THEN 0 - GridHalf * Size
             ELSE IF probe.unwrapped[i] < 0 - GridHalf * Size THEN GridHalf * Size
             ELSE probe.unwrapped[i]
    /\ probe.steps = GridCells => probe.position = probe.start
    /\ (probe.start = <<0, 0>> /\ direction = "Right" /\ probe.steps = 1)
          => probe.position = <<50, 0>>
    /\ (probe.start = <<0, 0>> /\ direction = "Right" /\ probe.steps = 7)
          => probe.position = <<0 - 300, 0>>

\* Seven steps Right from (0,0): the head has crossed the right edge.
C12_Witness ==
    /\ probe.start = <<0, 0>> /\ direction = "Right" /\ probe.steps = 7
    /\ probe.unwrapped = <<350, 0>> /\ probe.position = <<0 - 300, 0>>

\* C13: the wrap of move_head leaves every coordinate in [-6,6] as it is, so
\* it maps that range onto itself one to one, and wrapping twice is wrapping
\* once for every coordinate it is applied to, from -7 to 7.
C13_WrapIdentityIdempotent ==
    /\ \A i \in 1..2 : WrapAxis(probe.position[i]) = probe.position[i]
    /\ \A i \in 1..2 :
          /\ probe.unwrapped[i] \in
                {c * Size : c \in (0 - GridHalf - 1)..(GridHalf + 1)}
          /\ WrapAxis(WrapAxis(probe.unwrapped[i])) = WrapAxis(probe.unwrapped[i])
    /\ {WrapAxis(c * Size) : c \in Coords} = {c * Size : c \in Coords}

\* A step Left from the left edge: -7 is wrapped to 6.
C13_Witness ==
    /\ probe.unwrapped[1] = 0 - (GridHalf + 1) * Size
    /\ probe.position[1] = GridHalf * Size
    /\ direction = "Left" /\ probe.steps >= 1

(* ------------------- the high score file, save and load --------------- *)

\* HighScore values at the ends of the three widths of the encoding, as
\* halves: 0, 1, 250, 251, 65535, 65536 and 4294967295.
HighScoreSamples ==
    {<<0, 0>>, <<0, 1>>, <<0, 250>>, <<0, 251>>, <<0, 65535>>, <<1, 0>>,
     <<65535, 65535>>}

\* An earlier HighScore and the HighScore N, before either is saved.
InitHighScoreFile ==
    /\ direction = "Right"
    /\ last_direction = "Right"
    /\ \E first \in HighScoreSamples : \E n \in HighScoreSamples :
          probe = [mode |-> "high_score", first |-> first, n |-> n,
                   stage |-> "start", read |-> <<0, 0>>]
    /\ InitWorld

fileUnchanged ==
    <<state, next_state, overlay, timer_elapsed, dirVars, worldVars, score,
      high_score, saves, loaded, eventVars, phase, toggle_done, trigger_done,
      chain_pc, chain_on, group_pc, ticks, panic, sent_in_frame, ate_in_frame,
      at_start, resume>>

\* save_high_score of the earlier value.
save_earlier ==
    /\ probe.stage = "start"
    /\ file' = save_high_score_wide(probe.first)
    /\ probe' = [probe EXCEPT !.stage = "earlier"]
    /\ UNCHANGED fileUnchanged

\* save_high_score(HighScore(N)) over the earlier file.
save_later ==
    /\ probe.stage = "earlier"
    /\ file' = save_high_score_wide(probe.n)
    /\ probe' = [probe EXCEPT !.stage = "saved"]
    /\ UNCHANGED fileUnchanged

\* load_high_score after the save.
load_saved ==
    /\ probe.stage = "saved"
    /\ probe' = [probe EXCEPT !.stage = "loaded",
                              !.read = load_high_score_wide(file)]
    /\ UNCHANGED file
    /\ UNCHANGED fileUnchanged

NextHighScoreFile == save_earlier \/ save_later \/ load_saved

SpecHighScoreFile == InitHighScoreFile /\ [][NextHighScoreFile]_vars

\* The bytes of the standard encoding of a u32 given as halves.
Width(w) == IF w[1] > 0 THEN 5 ELSE IF w[2] > 250 THEN 3 ELSE 1

\* C14: load_high_score after save_high_score(HighScore(N)) returns
\* HighScore(N), for N = 0, 1, 4294967295 and the other samples, whatever was
\* saved before: the later save leaves nothing of the earlier file.
C14_SaveLoadRoundTrip ==
    /\ probe.stage = "loaded" => probe.read = probe.n
    /\ probe.stage = "earlier" =>
          load_high_score_wide(file) = probe.first /\ Len(file) = Width(probe.first)
    /\ probe.stage \in {"saved", "loaded"} =>
          load_high_score_wide(file) = probe.n /\ Len(file) = Width(probe.n)

\* 4294967295 saved over a file that held 1, and read back.
C14_Witness ==
    /\ probe.stage = "loaded"
    /\ probe.first = <<0, 1>> /\ probe.n = <<65535, 65535>>
    /\ probe.read = <<65535, 65535>>
    /\ file = <<U32Marker, 255, 255, 255, 255>>

(* ---------------------- a game that fills the grid -------------------- *)

InitScripted ==
    /\ direction = "Right"
    /\ last_direction = "Right"
    /\ probe = Script
    /\ InitWorld

\* The systems that run in the scripted game: every frame ticks and every
\* tick eats.
NextScripted ==
    \/ BeginFrame
    \/ toggle_pause_game
    \/ trigger_movement
    \/ change_direction
    \/ move_head
    \/ apply_deferred
    \/ adjust_head_direction
    \/ eat_apple
    \/ skip_remove_tail
    \/ adjust_tail_direction
    \/ update_score
    \/ grow
    \/ EndFrame

SpecScripted == InitScripted /\ [][NextScripted]_vars

\* C15: whenever spawn_apple is called at least one cell of the grid holds no
\* segment, and the panic 'expected spawn point' is never reached.
C15_SpawnPointExists ==
    /\ panic # "expected spawn point"
    /\ (phase = "update" /\ group_pc = "grow") => SpawnPoints(OccupiedFor(parts)) # {}

(* ------------------------ committing a direction ---------------------- *)

\* C16: LastDirection changes only in move_head, which sets it to the
\* Direction it steps in and leaves Direction alone, so the two are equal
\* right after every tick; change_direction changes neither LastDirection
\* nor the chain, the apple or the scores; the chain changes only in a frame
\* whose tick has run, and each tick commits one direction.
C16_CommitOnTick ==
    [][/\ last_direction' # last_direction =>
             /\ chain_pc = "move_head" /\ chain_pc' = "sync1"
             /\ ticks' = ticks + 1
       /\ (chain_pc = "move_head" /\ chain_pc' = "sync1") =>
             /\ last_direction' = direction
             /\ direction' = direction
             /\ ticks' = ticks + 1
       /\ (chain_pc = "change_direction" /\ chain_pc' = "move_head") =>
             UNCHANGED <<last_direction, parts, apples, commands, score,
                         high_score, ticks>>
       /\ parts' # parts => chain_on]_vars

\* The second tick, run on the MovementEvent sent at the end of the frame
\* before, has just committed a turn Up; the head has not moved yet.
C16_Witness ==
    /\ chain_pc = "sync1" /\ last_direction = "Up" /\ direction = "Up"
    /\ at_start.timer = Period \div 2 /\ ticks = 2 /\ ~trigger_done
    /\ \A h \in WithRole(parts, "Head") : parts[h].pos = <<Size, 0>>

(* ----------------------- handling AppleEatenEvent --------------------- *)

\* The AppleEatenEvents sent so far: the chain grew by one on each of them.
EatsSoFar == Length - 3

\* The events the group (grow, update_score, play_crunch_sound) has handled
\* by the end of a frame: all but the one its run condition has yet to see.
Handled == EatsSoFar - eaten_unread_group

\* C17: under every order of the group and the chain each AppleEatenEvent is
\* handled once: by the end of a frame Score has risen by one for each event
\* handled, the eaten apples are gone and one apple was spawned for each, and
\* there is always exactly one apple.
C17_EachEatHandledOnce ==
    /\ Cardinality(DOMAIN apples) = 1
    /\ EndOfFrame =>
          /\ eaten_unread_group \in {0, 1}
          /\ score = Handled
          /\ next_apple = 2 + Handled
          /\ DOMAIN apples = {1 + Handled}

\* C18: at the end of a frame with no AppleEatenEvent left for any reader,
\* Score is the number of segments minus 3.
C18_ScoreIsGrowth ==
    (EndOfFrame /\ eaten_unread_group = 0 /\ grow_unread = <<>>)
       => score = Length - 3

\* C19: at the end of every frame the file, an absent file read as 0, holds
\* the HighScore in memory: it does at startup, and every change of HighScore
\* is written in the update_score that makes it.
C19_FileHoldsHighScore ==
    /\ EndOfFrame => load_high_score(file) = high_score
    /\ file = NoFile => high_score = 0 /\ saves = 0
    /\ saves = 0 => high_score = loaded

\* No file at startup, two eats, each saved: the file holds 2.
C19_Witness ==
    /\ EndOfFrame /\ loaded = 0 /\ saves = 2
    /\ high_score = 2 /\ file = <<2>>

(* ------------------ adjust_tail_direction on the grid ----------------- *)

\* A Tail on any cell whose next segment lies one step of move_head away in
\* any Direction: the NextBodyPart move_head stored when the Tail was the Head.
InitTailDirection ==
    /\ direction \in Directions
    /\ last_direction = direction
    /\ \E p \in Grid :
          probe = [mode |-> "adjust_tail_direction", position |-> p,
                   next_position |-> NewHeadPosition(p, direction),
                   angle |-> 0, adjusted |-> FALSE]
    /\ InitWorld

\* One run of adjust_tail_direction.
turn_tail ==
    /\ ~probe.adjusted
    /\ probe' = [probe EXCEPT
                    !.angle = TailAngle(probe.position, probe.next_position),
                    !.adjusted = TRUE]
    /\ UNCHANGED <<pauseVars, timer_elapsed, dirVars, worldVars, scoreVars,
                   loaded, eventVars, phase, toggle_done, trigger_done, chain_pc,
                   chain_on, group_pc, ticks, panic, sent_in_frame, ate_in_frame,
                   at_start, resume>>

SpecTailDirection == InitTailDirection /\ [][turn_tail]_vars

\* The orientation of a segment that travels in direction d, in degrees.
TravelAngle(d) ==
    CASE d = "Right" -> 0
      [] d = "Left" -> 180
      [] d = "Up" -> 90
      [] d = "Down" -> 0 - 90

\* C20: the angle adjust_tail_direction gives the Tail is that of the
\* direction in which the snake went from the Tail's cell to the next
\* segment's cell, across an edge of the grid too.
C20_TailFacesTravel == probe.adjusted => probe.angle = TravelAngle(direction)

====
